---- MODULE Spec2Model ----
(***************************************************************************)
(* DerbyJSON (crzwdjk/derbyjson): the document model of src/lib.rs,        *)
(* src/jamdata.rs and src/teamdata.rs, the serde (de)serialisation that    *)
(* its derive attributes select, and the roster loader load_roster.        *)
(*                                                                         *)
(* A JSON text is modelled as its value tree.  Objects are sequences of    *)
(* <<key, value>> pairs in stream order, so that duplicate keys and the    *)
(* order in which a streaming decoder meets the fields are kept.           *)
(***************************************************************************)
EXTENDS Integers, Sequences, FiniteSets, TLC

VARIABLES pc, reader, obj, result, value, json, decoded

vars == <<pc, reader, obj, result, value, json, decoded>>

(***************************************************************************)
(* Bounds of the model.                                                    *)
(***************************************************************************)
MaxTeams == 2
MaxPersons == 1
MaxLen == 1
MaxNum == 2

(***************************************************************************)
(* JSON values.  A float literal [float |-> TRUE, n |-> k] denotes k + 0.5,*)
(* so that no float literal denotes an integer.                            *)
(***************************************************************************)
JNull == [t |-> "null"]
JStr(s) == [t |-> "str", s |-> s]
JBool(b) == [t |-> "bool", b |-> b]
JInt(n) == [t |-> "num", float |-> FALSE, n |-> n]
JFloat(n) == [t |-> "num", float |-> TRUE, n |-> n]
JArr(a) == [t |-> "arr", a |-> a]
JObj(o) == [t |-> "obj", o |-> o]

(***************************************************************************)
(* Rust values.  Option<T> is None or Some(x); Result is Ok(v) or Err(e);  *)
(* a unit-only enum is its discriminant (declaration index from 0).        *)
(***************************************************************************)
None == [some |-> FALSE]
Some(x) == [some |-> TRUE, v |-> x]
Ok(v) == [ok |-> TRUE, v |-> v]
SerdeError(code, what) == [code |-> code, what |-> what]
Err(code, what) == [ok |-> FALSE, err |-> SerdeError(code, what)]
EmptyMap == [x \in {} |-> x]
Idle == [idle |-> TRUE]

(***************************************************************************)
(* Type descriptors: the Rust type of a field, as written in the source.   *)
(***************************************************************************)
TString == [k |-> "string"]
TBool == [k |-> "bool"]
TU8 == [k |-> "uint", bits |-> 8]
TU16 == [k |-> "uint", bits |-> 16]
TU32 == [k |-> "uint", bits |-> 32]
TNumber == [k |-> "number"]
TJsonMap == [k |-> "json_map"]
TOption(T) == [k |-> "option", of |-> T]
TVec(T) == [k |-> "vec", of |-> T]
THashMap(T) == [k |-> "hashmap", of |-> T]
TStruct(name) == [k |-> "struct", name |-> name]
TUnitEnum(name) == [k |-> "unit_enum", name |-> name]
TTimestamp == [k |-> "newtype_enum", name |-> "Timestamp"]
TJamEvent == [k |-> "internally_tagged", name |-> "JamEvent"]
TClockEvent == [k |-> "untagged", name |-> "ClockEvent"]

\* A struct field: its Rust name, its external name, its type, and whether
\* it carries #[serde(default)].
Field(rust, ty) == [rust |-> rust, json |-> rust, ty |-> ty, default |-> FALSE]
FieldRenamed(rust, ext, ty) == [rust |-> rust, json |-> ext, ty |-> ty, default |-> FALSE]
FieldDefault(rust, ty) == [rust |-> rust, json |-> rust, ty |-> ty, default |-> TRUE]
\* A variant of an enum: its Rust name, its external name, and the fields
\* (struct variant) or payload type (newtype variant) it carries.
Variant(rust, ext) == [rust |-> rust, json |-> ext]
StructVariant(rust, ext, fields) == [rust |-> rust, json |-> ext, fields |-> fields]
NewtypeVariant(rust, ext, ty) == [rust |-> rust, json |-> ext, ty |-> ty]

\* rename_all = "kebab-case" on the names that occur in the source.
KebabCase(s) ==
  CASE s = "no_skater" -> "no-skater"
    [] s = "opposing_pass" -> "opposing-pass"
    [] s = "Game" -> "game"
    [] s = "Rosters" -> "rosters"
    [] s = "Stats" -> "stats"
    [] s = "League" -> "league"
    [] s = "Jammer" -> "jammer"
    [] s = "Pivot" -> "pivot"
    [] s = "Blocker" -> "blocker"
    [] s = "No" -> "no"
    [] s = "Minor" -> "minor"
    [] s = "Major" -> "major"
    [] s = "Expulsion" -> "expulsion"
    [] s = "Official" -> "official"
    [] s = "Skater" -> "skater"
    [] s = "Rescinded" -> "rescinded"
    [] s = "Mistake" -> "mistake"
    [] s = "Penalty" -> "penalty"
    [] s = "Injury" -> "injury"
    [] s = "Malfuction" -> "malfuction"
    [] s = "Other" -> "other"
    [] s = "Wall" -> "wall"
    [] s = "Epoch" -> "epoch"
    [] s = "Period" -> "period"
    [] s = "Seconds" -> "seconds"
    [] s = "Jam" -> "jam"
    [] OTHER -> s
\* rename_all left out: every name stays as written.
RenameAllIgnored(entries) == entries

RenameAllKebab(entries) == [i \in DOMAIN entries |-> [entries[i] EXCEPT !.json = KebabCase(entries[i].rust)]]

(***************************************************************************)
(* src/lib.rs                                                              *)
(***************************************************************************)
VERSION == "0.2"

\* As Rosters, but `leagues` without #[serde(default)].
RostersLeaguesRequired ==
  << Field("version", TOption(TString)),
     Field("metadata", TOption(TJsonMap)),
     FieldRenamed("objecttype", "type", TUnitEnum("ObjectType")),
     Field("teams", THashMap(TStruct("Team"))),
     FieldDefault("uuid", TVec(TString)),
     FieldDefault("notes", TVec(TStruct("Note"))),
     Field("leagues", TVec(TStruct("League"))) >>

Rosters ==
  << Field("version", TOption(TString)),
     Field("metadata", TOption(TJsonMap)),
     FieldRenamed("objecttype", "type", TUnitEnum("ObjectType")),
     Field("teams", THashMap(TStruct("Team"))),
     FieldDefault("uuid", TVec(TString)),
     FieldDefault("notes", TVec(TStruct("Note"))),
     FieldDefault("leagues", TVec(TStruct("League"))) >>

ObjectType ==
  RenameAllKebab(<< Variant("Game", "Game"), Variant("Rosters", "Rosters"),
                    Variant("Stats", "Stats"), Variant("League", "League") >>)

Note ==
  << Field("note", TString),
     Field("author", TOption(TString)) >>

(***************************************************************************)
(* src/teamdata.rs                                                         *)
(***************************************************************************)
Team ==
  << Field("name", TString),
     Field("league", TOption(TString)),
     Field("abbreviation", TOption(TString)),
     Field("persons", TVec(TStruct("Person"))),
     Field("level", TOption(TUnitEnum("TeamLevel"))),
     Field("date", TOption(TString)),
     Field("color", TOption(TString)),
     Field("logo", TOption(TStruct("Logo"))) >>

TeamLevel ==
  << Variant("AllStar", "All Star"), Variant("B", "B"), Variant("C", "C"),
     Variant("Rec", "Rec"), Variant("Officials", "Officials"),
     Variant("Home", "Home"), Variant("Adhoc", "Adhoc") >>

League ==
  << Field("name", TString),
     Field("abbreviation", TOption(TString)),
     Field("uuid", TOption(TVec(TString))),
     Field("venue", TOption(TStruct("Venue"))),
     Field("teams", TVec(TStruct("Team"))),
     Field("logo", TOption(TStruct("Logo"))) >>

Person ==
  << Field("name", TString),
     Field("number", TOption(TString)),
     Field("league", TOption(TString)),
     Field("certifications", TOption(TVec(TStruct("Certification")))),
     Field("legal", TOption(TString)),
     FieldDefault("roles", TVec(TString)),
     Field("skated", TOption(TBool)),
     Field("uuid", TOption(TVec(TString))),
     Field("insurance", TOption(TVec(TString))) >>

Venue ==
  << Field("name", TString),
     Field("city", TString),
     Field("state", TString),
     Field("url", TOption(TString)),
     Field("country", TOption(TString)),
     Field("email", TOption(TString)),
     Field("fax", TOption(TString)),
     Field("otheraddr", TOption(TString)),
     Field("phone", TOption(TString)),
     Field("pob", TOption(TString)),
     Field("postcode", TOption(TString)),
     Field("street", TOption(TString)),
     FieldDefault("notes", TVec(TStruct("Note"))),
     FieldDefault("uuid", TVec(TString)),
     FieldDefault("logo", TVec(TStruct("Logo"))) >>

Certification ==
  << Field("association", TUnitEnum("Association")),
     Field("certification", TString),
     Field("level", TOption(TU8)),
     Field("endorsement", TOption(TString)) >>

Association ==
  << Variant("WFTDA", "WFTDA"), Variant("MRDA", "MRDA"),
     Variant("JRDA", "JRDA"), Variant("Other", "Other") >>

Logo ==
  << Field("url", TOption(TString)),
     Field("small", TOption(TString)),
     Field("medium", TOption(TString)),
     Field("large", TOption(TString)),
     Field("small_dark", TOption(TString)),
     Field("medium_dark", TOption(TString)),
     Field("large_dark", TOption(TString)),
     Field("small_light", TOption(TString)),
     Field("medium_light", TOption(TString)),
     Field("large_light", TOption(TString)),
     Field("small_greyscale", TOption(TString)),
     Field("medium_greyscale", TOption(TString)),
     Field("large_greyscale", TOption(TString)) >>

(***************************************************************************)
(* src/jamdata.rs                                                          *)
(***************************************************************************)
JamEvent_Lineup ==
  StructVariant("Lineup", "line up",
    << Field("skater", TString),
       Field("start_in_box", TBool),
       Field("position", TUnitEnum("Position")) >>)

JamEvent_PackLap ==
  StructVariant("PackLap", "pack lap",
    << Field("timestamp", TOption(TTimestamp)),
       Field("count", TOption(TU8)) >>)

JamEvent_Penalty ==
  StructVariant("Penalty", "penalty",
    << Field("timestamp", TOption(TTimestamp)),
       Field("skater", TString),
       Field("penalty", TString),
       Field("severity", TOption(TUnitEnum("PenaltySeverity"))),
       Field("rescinded", TOption(TBool)),
       Field("involved", TOption(TVec(TStruct("Involved")))),
       Field("cue", TOption(TString)) >>)

JamEvent_Pass ==
  StructVariant("Pass", "pass",
    << Field("timestamp", TOption(TTimestamp)),
       Field("completed", TOption(TBool)),
       Field("number", TU8),
       Field("points", TOption(TU8)),
       Field("skater", TOption(TString)),
       Field("ghost_points", TOption(TVec(TStruct("GhostPoint")))) >>)

JamEvent_StarPass ==
  StructVariant("StarPass", "star pass",
    << Field("timestamp", TOption(TTimestamp)),
       Field("skater", TOption(TString)),
       Field("team", TOption(TString)),
       Field("completed", TOption(TBool)),
       Field("failure", TOption(TString)) >>)

JamEvent_Lead ==
  StructVariant("Lead", "lead",
    << Field("timestamp", TOption(TTimestamp)),
       Field("skater", TString) >>)

JamEvent_LostLead ==
  StructVariant("LostLead", "lost lead",
    << Field("timestamp", TOption(TTimestamp)),
       Field("skater", TString) >>)

JamEvent_Call ==
  StructVariant("Call", "call",
    << Field("timestamp", TOption(TTimestamp)),
       Field("skater", TOption(TString)),
       Field("team", TOption(TString)),
       Field("official", TOption(TString)) >>)

JamEvent_EnterBox ==
  StructVariant("EnterBox", "enter box",
    << Field("timestamp", TOption(TTimestamp)),
       Field("skater", TString),
       Field("duration", TOption(TNumber)),
       Field("substitute", TOption(TStruct("Substitute"))),
       Field("notes", TOption(TVec(TStruct("Note")))) >>)

JamEvent_ExitBox ==
  StructVariant("ExitBox", "exit box", RenameAllKebab(
    << Field("timestamp", TOption(TTimestamp)),
       Field("skater", TString),
       Field("duration", TOption(TNumber)),
       Field("premature", TOption(TUnitEnum("PrematureExitReason"))),
       Field("no_skater", TOption(TBool)) >>))

JamEvent_BoxTime ==
  StructVariant("BoxTime", "box time", << >>)

JamEvent_Injury ==
  StructVariant("Injury", "injury",
    << Field("timestamp", TOption(TTimestamp)),
       Field("skater", TString) >>)

JamEvent_Note ==
  StructVariant("Note", "note",
    << Field("note", TString),
       Field("author", TOption(TString)),
       Field("date", TOption(TString)),
       Field("notes", TStruct("Note")) >>)

JamEvent_LeaveTrack ==
  StructVariant("LeaveTrack", "leave track", RenameAllKebab(
    << Field("timestamp", TOption(TTimestamp)),
       Field("skater", TString),
       Field("reason", TOption(TUnitEnum("LeaveTrackReason"))),
       Field("opposing_pass", TU8) >>))

JamEvent_ReturnTrack ==
  StructVariant("ReturnTrack", "return track", RenameAllKebab(
    << Field("timestamp", TOption(TTimestamp)),
       Field("skater", TString),
       Field("opposing_pass", TU8) >>))

\* As JamEvent, but without the variant the DerbyJSON spec does not specify.
JamEventWithoutBoxTime ==
  << JamEvent_Lineup,
     JamEvent_PackLap,
     JamEvent_Penalty,
     JamEvent_Pass,
     JamEvent_StarPass,
     JamEvent_Lead,
     JamEvent_LostLead,
     JamEvent_Call,
     JamEvent_EnterBox,
     JamEvent_ExitBox,
     JamEvent_Injury,
     JamEvent_Note,
     JamEvent_LeaveTrack,
     JamEvent_ReturnTrack >>

\* enum JamEvent: the variants in declaration order.
JamEvent ==
  << JamEvent_Lineup,
     JamEvent_PackLap,
     JamEvent_Penalty,
     JamEvent_Pass,
     JamEvent_StarPass,
     JamEvent_Lead,
     JamEvent_LostLead,
     JamEvent_Call,
     JamEvent_EnterBox,
     JamEvent_ExitBox,
     JamEvent_BoxTime,
     JamEvent_Injury,
     JamEvent_Note,
     JamEvent_LeaveTrack,
     JamEvent_ReturnTrack >>

\* #[serde(tag = "event")]
JamEventTag == "event"

Position ==
  RenameAllKebab(<< Variant("Jammer", "Jammer"), Variant("Pivot", "Pivot"),
                    Variant("Blocker", "Blocker") >>)

PenaltySeverity ==
  RenameAllKebab(<< Variant("No", "No"), Variant("Minor", "Minor"),
                    Variant("Major", "Major"), Variant("Expulsion", "Expulsion") >>)

PrematureExitReason ==
  RenameAllKebab(<< Variant("Official", "Official"), Variant("Skater", "Skater"),
                    Variant("Rescinded", "Rescinded"), Variant("Mistake", "Mistake") >>)

LeaveTrackReason ==
  RenameAllKebab(<< Variant("Penalty", "Penalty"), Variant("Injury", "Injury"),
                    Variant("Malfuction", "Malfuction"), Variant("Other", "Other") >>)

GhostPoint ==
  << Field("skater", TOption(TString)),
     Field("ghost_point", TUnitEnum("GhostPointType")) >>

GhostPointType ==
  << Variant("L", "L"), Variant("J", "J"), Variant("B", "B"), Variant("P", "P"),
     Variant("N", "N"), Variant("O", "O"), Variant("G", "G") >>

Involved ==
  << Field("skater", TString),
     FieldDefault("notes", TVec(TStruct("Note"))) >>

Substitute ==
  << Field("skater", TString),
     Field("reason", TString) >>

Jam ==
  << Field("number", TU16),
     Field("timestamp", TOption(TTimestamp)),
     Field("duration", TOption(TU16)),
     Field("events", TVec(TJamEvent)),
     Field("notes", TVec(TStruct("Note"))) >>

Timeout ==
  << Field("timeout", TUnitEnum("TeamType")),
     FieldDefault("notes", TVec(TStruct("Note"))),
     Field("injury", TOption(TString)),
     Field("duration", TU32),
     Field("timestamp", TOption(TTimestamp)),
     Field("review", TOption(TString)),
     Field("resolution", TOption(TString)),
     Field("retained", TOption(TBool)) >>

\* #[serde(untagged)]: the variants in declaration order, each a newtype
\* around a struct.
ClockEvent ==
  << NewtypeVariant("Note", "Note", TStruct("Note")),
     NewtypeVariant("Jam", "Jam", TStruct("Jam")),
     NewtypeVariant("Timeout", "Timeout", TStruct("Timeout")) >>

TeamType ==
  << Variant("Home", "Home"), Variant("Away", "Away"),
     Variant("Officials", "Officials") >>

Period ==
  << Field("timestamp", TOption(TTimestamp)),
     Field("end", TOption(TTimestamp)),
     Field("jams", TVec(TClockEvent)) >>

\* As Timestamp, but Seconds written under the name of Epoch.
TimestampSecondsAsEpoch ==
  << NewtypeVariant("Wall", "wall", TString),
     NewtypeVariant("Epoch", "epoch", TNumber),
     NewtypeVariant("Period", "period", TString),
     NewtypeVariant("Seconds", "epoch", TNumber),
     NewtypeVariant("Jam", "jam", TNumber) >>

Timestamp ==
  RenameAllKebab(
  << NewtypeVariant("Wall", "Wall", TString),
     NewtypeVariant("Epoch", "Epoch", TNumber),
     NewtypeVariant("Period", "Period", TString),
     NewtypeVariant("Seconds", "Seconds", TNumber),
     NewtypeVariant("Jam", "Jam", TNumber) >>)

(***************************************************************************)
(* Lookup of the declarations by type name.                                *)
(***************************************************************************)
StructFields(name) ==
  CASE name = "Rosters" -> Rosters
    [] name = "Note" -> Note
    [] name = "Team" -> Team
    [] name = "League" -> League
    [] name = "Person" -> Person
    [] name = "Venue" -> Venue
    [] name = "Certification" -> Certification
    [] name = "Logo" -> Logo
    [] name = "GhostPoint" -> GhostPoint
    [] name = "Involved" -> Involved
    [] name = "Substitute" -> Substitute
    [] name = "Jam" -> Jam
    [] name = "Timeout" -> Timeout
    [] name = "Period" -> Period

\* No struct denies unknown fields.
DenyNoUnknownFields(name) == FALSE

\* #[serde(deny_unknown_fields)]
DenyUnknownFields(name) == name = "Rosters"

EnumVariants(name) ==
  CASE name = "ObjectType" -> ObjectType
    [] name = "TeamLevel" -> TeamLevel
    [] name = "Association" -> Association
    [] name = "Position" -> Position
    [] name = "PenaltySeverity" -> PenaltySeverity
    [] name = "PrematureExitReason" -> PrematureExitReason
    [] name = "LeaveTrackReason" -> LeaveTrackReason
    [] name = "GhostPointType" -> GhostPointType
    [] name = "TeamType" -> TeamType
    [] name = "Timestamp" -> Timestamp
    [] name = "JamEvent" -> JamEvent
    [] name = "ClockEvent" -> ClockEvent

(***************************************************************************)
(* Deserialisation, as serde_json and the derived Deserialize impls do it. *)
(***************************************************************************)
\* Bind(x, F) is F(x), with x evaluated once and then used as a value.
Bind(x, F(_)) == CHOOSE y \in {F(v) : v \in {x}} : TRUE

\* Index of the entry with external name `key`, 0 when there is none.
IndexOfJson(entries, key) ==
  IF \E i \in DOMAIN entries : entries[i].json = key
  THEN CHOOSE i \in DOMAIN entries : entries[i].json = key
  ELSE 0

\* Whether a non-negative model integer fits an unsigned integer of `bits`
\* bits (every model integer is below 2^31).
FitsUnsigned(n, bits) ==
  /\ n >= 0
  /\ CASE bits = 8 -> n <= 255
       [] bits = 16 -> n <= 65535
       [] OTHER -> TRUE

\* serde_json::Number of a number literal: PosInt, NegInt or Float.
NumberOf(j) ==
  IF j.float THEN [N |-> "Float", n |-> j.n]
  ELSE IF j.n >= 0 THEN [N |-> "PosInt", n |-> j.n]
  ELSE [N |-> "NegInt", n |-> j.n]

\* The payload of a newtype variant, kept apart by payload type.
Box(ty, x) == IF ty.k = "string" THEN [str |-> x] ELSE [num |-> x]
Unbox(ty, b) == IF ty.k = "string" THEN b.str ELSE b.num

\* The pairs of an object other than those under `key`.
RECURSIVE WithoutKey(_, _)
WithoutKey(pairs, key) ==
  IF pairs = << >> THEN << >>
  ELSE IF Head(pairs)[1] = key THEN WithoutKey(Tail(pairs), key)
  ELSE << Head(pairs) >> \o WithoutKey(Tail(pairs), key)

\* Default::default() of a #[serde(default)] field (all are Vec).
DefaultValue(ty) == << >>

RECURSIVE Deserialize(_, _)
RECURSIVE DeserializeValue(_, _)
RECURSIVE VisitSeq(_, _, _, _)
RECURSIVE VisitHashMap(_, _, _, _)
RECURSIVE VisitStruct(_, _, _, _, _)
RECURSIVE VisitTag(_, _, _, _)
RECURSIVE VisitUntagged(_, _, _)

\* Vec<T>: the elements in order, the first failing element's error.
VisitSeq(ty, a, i, acc) ==
  IF i > Len(a) THEN Ok(acc)
  ELSE Bind(Deserialize(ty, a[i]),
            LAMBDA r : IF r.ok THEN VisitSeq(ty, a, i + 1, Append(acc, r.v)) ELSE r)

\* As VisitHashMap, but an entry under a key already met is dropped.
VisitHashMapKeepFirst(ty, pairs, i, acc) ==
  IF i > Len(pairs) THEN Ok(acc)
  ELSE Bind(Deserialize(ty, pairs[i][2]),
            LAMBDA r :
              IF r.ok
              THEN VisitHashMap(ty, pairs, i + 1,
                     IF pairs[i][1] \in DOMAIN acc THEN acc ELSE acc @@ (pairs[i][1] :> r.v))
              ELSE r)

\* HashMap<String, T>: each entry is inserted, a later one replacing an
\* earlier one under the same key.
VisitHashMap(ty, pairs, i, acc) ==
  IF i > Len(pairs) THEN Ok(acc)
  ELSE Bind(Deserialize(ty, pairs[i][2]),
            LAMBDA r :
              IF r.ok
              THEN VisitHashMap(ty, pairs, i + 1,
                     [k \in (DOMAIN acc) \cup {pairs[i][1]} |->
                        IF k = pairs[i][1] THEN r.v ELSE acc[k]])
              ELSE r)

\* After the last entry: a field never met is None when an Option, its
\* default when #[serde(default)], and a "missing field" error otherwise.
RECURSIVE MissingFields(_, _, _)
MissingFields(fields, i, acc) ==
  IF i > Len(fields) THEN Ok(acc)
  ELSE LET f == fields[i]
       IN IF f.rust \in DOMAIN acc THEN MissingFields(fields, i + 1, acc)
          ELSE IF f.default THEN MissingFields(fields, i + 1, acc @@ (f.rust :> DefaultValue(f.ty)))
          ELSE IF f.ty.k = "option" THEN MissingFields(fields, i + 1, acc @@ (f.rust :> None))
          ELSE Err("missing field", f.json)

\* The derived visit_map of a struct (or struct variant): the entries in
\* stream order.
VisitStruct(fields, deny, pairs, i, acc) ==
  IF i > Len(pairs) THEN MissingFields(fields, 1, acc)
  ELSE LET key == pairs[i][1]
           idx == IndexOfJson(fields, key)
       IN IF idx = 0
          THEN IF deny THEN Err("unknown field", key)
               ELSE VisitStruct(fields, deny, pairs, i + 1, acc)
          ELSE IF fields[idx].rust \in DOMAIN acc THEN Err("duplicate field", key)
          ELSE Bind(Deserialize(fields[idx].ty, pairs[i][2]),
                    LAMBDA r :
                      IF r.ok
                      THEN VisitStruct(fields, deny, pairs, i + 1, acc @@ (fields[idx].rust :> r.v))
                      ELSE r)

\* Internally tagged enum: the entries are read in stream order, the tag is
\* resolved when met, everything else is buffered.  `seen` is 0 before the
\* tag is met and the variant's index after.
VisitTag(name, pairs, i, seen) ==
  IF i > Len(pairs)
  THEN IF seen = 0 THEN Err("missing field", JamEventTag) ELSE Ok(seen)
  ELSE IF pairs[i][1] # JamEventTag THEN VisitTag(name, pairs, i + 1, seen)
  ELSE IF seen # 0 THEN Err("duplicate field", JamEventTag)
  ELSE IF pairs[i][2].t # "str" THEN Err("invalid type", pairs[i][2].t)
  ELSE LET idx == IndexOfJson(EnumVariants(name), pairs[i][2].s)
       IN IF idx = 0 THEN Err("unknown variant", pairs[i][2].s)
          ELSE VisitTag(name, pairs, i + 1, idx)

\* Untagged enum: the variants are tried in declaration order and the first
\* that deserialises wins.
VisitUntagged(name, j, i) ==
  IF i > Len(EnumVariants(name))
  THEN Err("data did not match any variant of untagged enum", name)
  ELSE Bind(Deserialize(EnumVariants(name)[i].ty, j),
            LAMBDA r : IF r.ok THEN Ok([variant |-> EnumVariants(name)[i].rust, v |-> r.v])
                       ELSE VisitUntagged(name, j, i + 1))

\* Deserialize::deserialize of a type on a JSON value; the type and the
\* value are evaluated once.
Deserialize(type, text) ==
  CHOOSE y \in {DeserializeValue(ty, j) : ty \in {type}, j \in {text}} : TRUE

DeserializeValue(ty, j) ==
  CASE ty.k = "string" ->
         IF j.t = "str" THEN Ok(j.s) ELSE Err("invalid type", j.t)
    [] ty.k = "bool" ->
         IF j.t = "bool" THEN Ok(j.b) ELSE Err("invalid type", j.t)
    [] ty.k = "uint" ->
         IF j.t # "num" THEN Err("invalid type", j.t)
         ELSE IF j.float THEN Err("invalid type", "float")
         ELSE IF ~FitsUnsigned(j.n, ty.bits) THEN Err("invalid value", "integer")
         ELSE Ok(j.n)
    [] ty.k = "number" ->
         IF j.t = "num" THEN Ok(NumberOf(j)) ELSE Err("invalid type", j.t)
    [] ty.k = "json_map" ->
         IF j.t = "obj" THEN Ok(j.o) ELSE Err("invalid type", j.t)
    [] ty.k = "option" ->
         IF j.t = "null" THEN Ok(None)
         ELSE Bind(Deserialize(ty.of, j), LAMBDA r : IF r.ok THEN Ok(Some(r.v)) ELSE r)
    [] ty.k = "vec" ->
         IF j.t = "arr" THEN VisitSeq(ty.of, j.a, 1, << >>) ELSE Err("invalid type", j.t)
    [] ty.k = "hashmap" ->
         IF j.t = "obj" THEN VisitHashMap(ty.of, j.o, 1, EmptyMap) ELSE Err("invalid type", j.t)
    [] ty.k = "struct" ->
         IF j.t = "obj"
         THEN VisitStruct(StructFields(ty.name), DenyUnknownFields(ty.name), j.o, 1, EmptyMap)
         ELSE Err("invalid type", j.t)
    [] ty.k = "unit_enum" ->
         IF j.t # "str" THEN Err("invalid type", j.t)
         ELSE LET idx == IndexOfJson(EnumVariants(ty.name), j.s)
              IN IF idx = 0 THEN Err("unknown variant", j.s) ELSE Ok(idx - 1)
    [] ty.k = "newtype_enum" ->
         IF j.t # "obj" THEN Err("invalid type", j.t)
         ELSE IF Len(j.o) # 1 THEN Err("invalid value", "map")
         ELSE LET idx == IndexOfJson(EnumVariants(ty.name), j.o[1][1])
              IN IF idx = 0 THEN Err("unknown variant", j.o[1][1])
                 ELSE LET var == EnumVariants(ty.name)[idx]
                      IN Bind(Deserialize(var.ty, j.o[1][2]),
                              LAMBDA r : IF r.ok THEN Ok([variant |-> var.rust, v |-> Box(var.ty, r.v)])
                                         ELSE r)
    [] ty.k = "internally_tagged" ->
         IF j.t # "obj" THEN Err("invalid type", j.t)
         ELSE Bind(VisitTag(ty.name, j.o, 1, 0),
                   LAMBDA tag :
                     IF ~tag.ok THEN tag
                     ELSE Bind(VisitStruct(EnumVariants(ty.name)[tag.v].fields, FALSE,
                                           WithoutKey(j.o, JamEventTag), 1, EmptyMap),
                               LAMBDA r :
                                 IF r.ok
                                 THEN Ok([variant |-> EnumVariants(ty.name)[tag.v].rust,
                                          fields |-> r.v])
                                 ELSE r))
    [] ty.k = "untagged" -> VisitUntagged(ty.name, j, 1)

(***************************************************************************)
(* Serialisation, as the derived Serialize impls do it: every field is     *)
(* written, in declaration order, under its external name; None is null.   *)
(***************************************************************************)
IndexOfRust(entries, name) == CHOOSE i \in DOMAIN entries : entries[i].rust = name

RECURSIVE Serialize(_, _)
SerializeFields(fields, v) ==
  [i \in DOMAIN fields |-> << fields[i].json, Serialize(fields[i].ty, v[fields[i].rust]) >>]

Serialize(ty, v) ==
  CASE ty.k = "string" -> JStr(v)
    [] ty.k = "bool" -> JBool(v)
    [] ty.k = "uint" -> JInt(v)
    [] ty.k = "number" -> IF v.N = "Float" THEN JFloat(v.n) ELSE JInt(v.n)
    [] ty.k = "json_map" -> JObj(v)
    [] ty.k = "option" -> IF v.some THEN Serialize(ty.of, v.v) ELSE JNull
    [] ty.k = "vec" -> JArr([i \in DOMAIN v |-> Serialize(ty.of, v[i])])
    [] ty.k = "struct" -> JObj(SerializeFields(StructFields(ty.name), v))
    [] ty.k = "unit_enum" -> JStr(EnumVariants(ty.name)[v + 1].json)
    [] ty.k = "newtype_enum" ->
         LET var == EnumVariants(ty.name)[IndexOfRust(EnumVariants(ty.name), v.variant)]
         IN JObj(<< << var.json, Serialize(var.ty, Unbox(var.ty, v.v)) >> >>)
    [] ty.k = "internally_tagged" ->
         LET var == EnumVariants(ty.name)[IndexOfRust(EnumVariants(ty.name), v.variant)]
         IN JObj(<< << JamEventTag, JStr(var.json) >> >> \o SerializeFields(var.fields, v.fields))
    [] ty.k = "untagged" ->
         LET var == EnumVariants(ty.name)[IndexOfRust(EnumVariants(ty.name), v.variant)]
         IN Serialize(var.ty, v.v)

(***************************************************************************)
(* src/lib.rs: Error and load_roster.                                      *)
(***************************************************************************)
\* enum Error { Serde(serde_json::Error), UnexpectedType(String),
\*              UnexpectedVersion(String) }
ErrorSerde(e) == [variant |-> "Serde", e |-> e]
ErrorUnexpectedType(t) == [variant |-> "UnexpectedType", s |-> t]
ErrorUnexpectedVersion(v) == [variant |-> "UnexpectedVersion", s |-> v]
Failed(e) == [ok |-> FALSE, err |-> e]

\* #[derive(Debug)] on a unit-only enum prints the variant's Rust name.
DebugFmt(name, d) == EnumVariants(name)[d + 1].rust

\* The discriminant of ObjectType::Rosters.
ObjectTypeRosters == IndexOfRust(ObjectType, "Rosters") - 1

\* serde_json::from_reader::<_, Rosters>: a text that is no JSON at all
\* fails at once; otherwise the value is deserialised and then the rest of
\* the stream must be empty.
from_reader(r) ==
  IF r.text = "malformed" THEN Err("syntax", "expected value")
  ELSE Bind(Deserialize(TStruct("Rosters"), r.doc),
            LAMBDA d : IF ~d.ok THEN d
                       ELSE IF r.text = "trailing" THEN Err("syntax", "trailing characters")
                       ELSE d)

\* load_roster as a function of its input: what a whole run returns.
load_roster(r) ==
  Bind(from_reader(r),
       LAMBDA d :
         IF ~d.ok THEN Failed(ErrorSerde(d.err))
         ELSE IF d.v.objecttype # ObjectTypeRosters
              THEN Failed(ErrorUnexpectedType(DebugFmt("ObjectType", d.v.objecttype)))
         ELSE IF d.v.version.some /\ d.v.version.v # VERSION
              THEN Failed(ErrorUnexpectedVersion(d.v.version.v))
         ELSE Ok(d.v))

\* let obj: Rosters = serde_json::from_reader(reader)?;
LoadRosterDecode ==
  /\ pc = "decode"
  /\ LET d == from_reader(reader)
     IN IF d.ok
        THEN /\ obj' = d.v
             /\ pc' = "check_type"
             /\ UNCHANGED result
        ELSE /\ result' = Failed(ErrorSerde(d.err))
             /\ pc' = "done"
             /\ UNCHANGED obj
  /\ UNCHANGED <<reader, value, json, decoded>>

\* As LoadRosterCheckType, but with the version looked at first.
LoadRosterCheckTypeLate ==
  /\ pc = "check_type"
  /\ IF obj.version.some /\ obj.version.v # VERSION
     THEN /\ result' = Failed(ErrorUnexpectedVersion(obj.version.v))
          /\ pc' = "done"
     ELSE IF obj.objecttype # ObjectTypeRosters
     THEN /\ result' = Failed(ErrorUnexpectedType(DebugFmt("ObjectType", obj.objecttype)))
          /\ pc' = "done"
     ELSE /\ pc' = "check_version"
          /\ UNCHANGED result
  /\ UNCHANGED <<reader, obj, value, json, decoded>>

\* if obj.objecttype != ObjectType::Rosters { return Err(UnexpectedType) }
LoadRosterCheckType ==
  /\ pc = "check_type"
  /\ IF obj.objecttype # ObjectTypeRosters
     THEN /\ result' = Failed(ErrorUnexpectedType(DebugFmt("ObjectType", obj.objecttype)))
          /\ pc' = "done"
     ELSE /\ pc' = "check_version"
          /\ UNCHANGED result
  /\ UNCHANGED <<reader, obj, value, json, decoded>>

\* As LoadRosterCheckVersion, but the error carries the supported version.
LoadRosterCheckVersionSupported ==
  /\ pc = "check_version"
  /\ IF obj.version.some /\ obj.version.v # VERSION
     THEN result' = Failed(ErrorUnexpectedVersion(VERSION))
     ELSE result' = Ok(obj)
  /\ pc' = "done"
  /\ UNCHANGED <<reader, obj, value, json, decoded>>

\* As LoadRosterCheckVersion, but without the early return.
LoadRosterCheckVersionNoReturn ==
  /\ pc = "check_version"
  /\ result' = Ok(obj)
  /\ pc' = "done"
  /\ UNCHANGED <<reader, obj, value, json, decoded>>

\* if let Some(ref version) = obj.version { if version != VERSION { .. } }
\* return Ok(obj);
LoadRosterCheckVersion ==
  /\ pc = "check_version"
  /\ IF obj.version.some /\ obj.version.v # VERSION
     THEN result' = Failed(ErrorUnexpectedVersion(obj.version.v))
     ELSE result' = Ok(obj)
  /\ pc' = "done"
  /\ UNCHANGED <<reader, obj, value, json, decoded>>

(***************************************************************************)
(* The documents the loader is run on.                                     *)
(***************************************************************************)
Absent == << >>
Present(key, v) == << << key, v >> >>

PersonName(i) ==
  CASE i = 1 -> "p1" [] i = 2 -> "p2" [] i = 3 -> "p3" [] OTHER -> "pn"
PersonDoc(i) ==
  IF i % 2 = 1 THEN JObj(<< << "name", JStr(PersonName(i)) >> >>)
  ELSE JObj(<< << "number", JStr("7") >>, << "name", JStr(PersonName(i)) >> >>)
\* A team with n persons.
TeamDoc(name, n) ==
  JObj(<< << "name", JStr(name) >>, << "persons", JArr([i \in 1..n |-> PersonDoc(i)]) >> >>)
\* A team without its required `persons`.
BadTeamDoc(name) == JObj(<< << "name", JStr(name) >> >>)

TeamNames == {"Home", "Away"}
\* The teams object: any sequence of at most MaxTeams keys (a key may
\* repeat); the i-th entry has (i + shift) % (MaxPersons + 1) persons, so
\* that neighbouring entries differ in their number of persons.
TeamsDocs ==
  {JObj([i \in DOMAIN keys |-> << keys[i], TeamDoc(keys[i], (i + shift) % (MaxPersons + 1)) >>]) :
     keys \in UNION {[1..n -> TeamNames] : n \in 0..MaxTeams}, shift \in {0, MaxPersons}}
    \cup {JObj(<< << "Home", BadTeamDoc("Home") >> >>)}

VersionChoices ==
  {Absent} \cup {Present("version", v) : v \in {JNull, JStr("0.2"), JStr("9.9")}}
TypeChoices ==
  {Absent} \cup {Present("type", JStr(s)) : s \in {"rosters", "game", "stats", "league", "Rosters"}}
TeamsChoices == {Absent} \cup {Present("teams", t) : t \in TeamsDocs}
MetadataChoices == {Absent, Present("metadata", JObj(<< << "source", JStr("crg") >> >>))}
UuidChoices == {Absent, Present("uuid", JArr(<< JStr("u1"), JStr("u2") >>))}
NotesChoices == {Absent, Present("notes", JArr(<< JObj(<< << "note", JStr("n1") >> >>) >>))}
LeaguesChoices ==
  {Absent, Present("leagues",
             JArr(<< JObj(<< << "name", JStr("L1") >>, << "teams", JArr(<< >>) >> >>) >>))}
\* A field whose name is outside the declared field set of Rosters, before
\* or after the declared ones.
ExtraChoices ==
  {<< Absent, Absent >>,
   << Present("periods", JArr(<< >>)), Absent >>,
   << Absent, Present("Type", JStr("rosters")) >>}

Docs ==
  {JObj(ex[1] \o ve \o me \o ty \o te \o uu \o no \o le \o ex[2]) :
     ve \in VersionChoices, me \in MetadataChoices, ty \in TypeChoices,
     te \in TeamsChoices, uu \in UuidChoices, no \in NotesChoices, le \in LeaguesChoices,
     ex \in ExtraChoices}

\* Documents followed by more text in the stream.
TrailingDocs ==
  {JObj(ve \o ty \o Present("teams", JObj(<< >>))) : ve \in VersionChoices, ty \in TypeChoices}

Readers ==
  {[text |-> "malformed"]}
    \cup {[text |-> "json", doc |-> d] : d \in Docs}
    \cup {[text |-> "trailing", doc |-> d] : d \in TrailingDocs}

Init ==
  /\ reader \in Readers
  /\ pc = "decode"
  /\ obj = Idle
  /\ result = Idle
  /\ value = Idle
  /\ json = Idle
  /\ decoded = Idle

Next ==
  \/ LoadRosterDecode
  \/ LoadRosterCheckType
  \/ LoadRosterCheckVersion

Spec == Init /\ [][Next]_vars

\* load_roster is straight-line code: a step that can be taken is taken.
\* The runs are those on the documents that vary the version, the type,
\* the teams and the extra field alone.
GateDocs ==
  {JObj(ex[1] \o ve \o ty \o te \o ex[2]) :
     ve \in VersionChoices, ty \in TypeChoices, ex \in ExtraChoices,
     te \in {Absent, Present("teams", JObj(<< >>)),
             Present("teams", JObj(<< << "Home", TeamDoc("Home", 1) >> >>)),
             Present("teams", JObj(<< << "Home", BadTeamDoc("Home") >> >>))}}

InitGate ==
  /\ reader \in {[text |-> "malformed"]}
                 \cup {[text |-> "json", doc |-> d] : d \in GateDocs}
                 \cup {[text |-> "trailing", doc |-> d] : d \in TrailingDocs}
  /\ pc = "decode"
  /\ obj = Idle
  /\ result = Idle
  /\ value = Idle
  /\ json = Idle
  /\ decoded = Idle

FairSpec == InitGate /\ [][Next]_vars /\ WF_vars(Next)

(***************************************************************************)
(* Values of the document model, drawn per type.  `d` is the nesting depth *)
(* of the value; deeper values are drawn from smaller sets.                *)
(***************************************************************************)
Strings == {"x", "y"}
Numbers ==
  {[N |-> "PosInt", n |-> n] : n \in 0..MaxNum}
    \cup {[N |-> "NegInt", n |-> -n] : n \in 1..MaxNum}
    \cup {[N |-> "Float", n |-> n] : n \in (-MaxNum)..MaxNum}

RECURSIVE Samples(_, _)
RECURSIVE FieldSamples(_, _, _)
\* Every combination of field values: the records over fields[i..].
FieldSamples(fields, i, d) ==
  IF i > Len(fields) THEN {EmptyMap}
  ELSE {(fields[i].rust :> x) @@ rest :
          x \in Samples(fields[i].ty, d), rest \in FieldSamples(fields, i + 1, d)}

Samples(ty, d) ==
  CASE ty.k = "string" -> IF d <= 1 THEN Strings ELSE {"x"}
    [] ty.k = "bool" -> BOOLEAN
    [] ty.k = "uint" -> IF d <= 1 THEN {0, MaxNum} ELSE {MaxNum}
    [] ty.k = "number" -> IF d <= 1 THEN Numbers ELSE {[N |-> "PosInt", n |-> MaxNum]}
    [] ty.k = "option" -> {None} \cup {Some(x) : x \in Samples(ty.of, d + 1)}
    [] ty.k = "vec" ->
         {[i \in 1..n |-> x] : n \in 0..MaxLen, x \in Samples(ty.of, d + 1)}
    [] ty.k = "struct" -> FieldSamples(StructFields(ty.name), 1, d + 1)
    [] ty.k = "unit_enum" -> 0..(Len(EnumVariants(ty.name)) - 1)
    [] ty.k = "internally_tagged" ->
         \* the events inside a jam are drawn from one variant, Lead
         {[variant |-> "Lead", fields |-> f] :
            f \in FieldSamples(EnumVariants(ty.name)[IndexOfRust(EnumVariants(ty.name), "Lead")].fields, 1, d + 1)}
    [] ty.k = "newtype_enum" ->
         UNION {{[variant |-> EnumVariants(ty.name)[i].rust,
                  v |-> Box(EnumVariants(ty.name)[i].ty, x)] :
                   x \in Samples(EnumVariants(ty.name)[i].ty, d + 1)} :
                i \in DOMAIN EnumVariants(ty.name)}

\* The values of one struct variant of an internally tagged enum.
VariantSamples(var, d) ==
  {[variant |-> var.rust, fields |-> f] : f \in FieldSamples(var.fields, 1, d)}

\* The least JSON text a type accepts: required fields only.
RECURSIVE MinimalJson(_)
MinimalJson(ty) ==
  CASE ty.k = "string" -> JStr("x")
    [] ty.k = "bool" -> JBool(FALSE)
    [] ty.k = "uint" -> JInt(0)
    [] ty.k = "number" -> JInt(0)
    [] ty.k = "vec" -> JArr(<< >>)
    [] ty.k = "unit_enum" -> JStr(EnumVariants(ty.name)[1].json)
    [] ty.k = "struct" ->
         LET req == SelectSeq(StructFields(ty.name),
                              LAMBDA f : f.ty.k # "option" /\ ~f.default)
         IN JObj([i \in DOMAIN req |-> << req[i].json, MinimalJson(req[i].ty) >>])

HasKey(j, key) == \E i \in DOMAIN j.o : j.o[i][1] = key
Keys(j) == {j.o[i][1] : i \in DOMAIN j.o}
\* The value under the first entry named `key`.
ValueOf(j, key) == j.o[CHOOSE i \in DOMAIN j.o : j.o[i][1] = key /\ \A h \in 1..(i - 1) : j.o[h][1] # key][2]

(***************************************************************************)
(* Timestamp: serialise a value, deserialise the text.                     *)
(***************************************************************************)
\* Texts that are no serialisation of a Timestamp: a bare payload, an
\* unknown variant name, two variants at once, a payload of the wrong kind.
RawTimestampDocs ==
  {JStr("12:00"), JInt(MaxNum), JFloat(0), JNull,
   JObj(<< << "Wall", JStr("12:00") >> >>),
   JObj(<< << "wall", JStr("12:00") >>, << "epoch", JInt(1) >> >>),
   JObj(<< << "wall", JInt(1) >> >>),
   JObj(<< << "epoch", JStr("12:00") >> >>),
   JObj(<< >>)}

InitTimestamp ==
  /\ \/ /\ pc = "serialize"
        /\ value \in Samples(TTimestamp, 0)
        /\ json = Idle
     \/ /\ pc = "deserialize"
        /\ value = Idle
        /\ json \in RawTimestampDocs
  /\ decoded = Idle
  /\ reader = Idle
  /\ obj = Idle
  /\ result = Idle

SerializeTimestamp ==
  /\ pc = "serialize"
  /\ json' = Serialize(TTimestamp, value)
  /\ pc' = "deserialize"
  /\ UNCHANGED <<reader, obj, result, value, decoded>>

DeserializeTimestamp ==
  /\ pc = "deserialize"
  /\ decoded' = Deserialize(TTimestamp, json)
  /\ pc' = "done"
  /\ UNCHANGED <<reader, obj, result, value, json>>

NextTimestamp ==
  \/ SerializeTimestamp
  \/ DeserializeTimestamp

SpecTimestamp == InitTimestamp /\ [][NextTimestamp]_vars

(***************************************************************************)
(* JamEvent: serialise a value, deserialise the text.                      *)
(***************************************************************************)
\* The event object of variant i with its required fields only, the tag
\* first or last, with or without a field the variant does not declare.
MinimalEventDoc(i, tagFirst, extra) ==
  LET req == SelectSeq(JamEvent[i].fields, LAMBDA f : f.ty.k # "option" /\ ~f.default)
      body == [h \in DOMAIN req |-> << req[h].json, MinimalJson(req[h].ty) >>]
      tag == << << JamEventTag, JStr(JamEvent[i].json) >> >>
      more == IF extra THEN << << "comment", JStr("x") >> >> ELSE << >>
  IN JObj(IF tagFirst THEN tag \o body \o more ELSE body \o more \o tag)

\* Strings that are no tag of JamEvent.
UnknownTags == {"Lineup", "lineup", "line-up", "box-time", "jam", "action", "error", ""}

\* The documented tag strings, each with the required fields of every
\* variant at once (a variant ignores the fields it does not declare);
\* `notes` is required by "note" alone and is of another type elsewhere.
DocumentedTags ==
  {"line up", "pack lap", "penalty", "pass", "star pass", "lead", "lost lead", "call",
   "enter box", "exit box", "box time", "injury", "note", "leave track", "return track"}
AllRequiredFields ==
  << << "skater", JStr("x") >>, << "start_in_box", JBool(FALSE) >>,
     << "position", JStr("jammer") >>, << "penalty", JStr("x") >>,
     << "number", JInt(0) >>, << "note", JStr("x") >>,
     << "opposing-pass", JInt(0) >> >>
DocumentedTagDoc(tg) ==
  JObj(<< << JamEventTag, JStr(tg) >> >> \o AllRequiredFields
         \o (IF tg = "note" THEN Present("notes", JObj(<< << "note", JStr("x") >> >>))
             ELSE Absent))

RawEventDocs ==
  {MinimalEventDoc(i, tf, ex) : i \in DOMAIN JamEvent, tf \in BOOLEAN, ex \in BOOLEAN}
    \cup {DocumentedTagDoc(tg) : tg \in DocumentedTags}
    \cup {JObj(<< << JamEventTag, JStr(tg) >>, << "skater", JStr("x") >> >>) : tg \in UnknownTags}
    \cup {JObj(<< << "skater", JStr("x") >>, << JamEventTag, JStr(tg) >> >>) : tg \in UnknownTags}
    \cup {JObj(<< << "skater", JStr("x") >> >>),
          JObj(<< << JamEventTag, JInt(1) >>, << "skater", JStr("x") >> >>),
          JObj(<< << JamEventTag, JStr("lead") >>, << JamEventTag, JStr("lead") >>,
                  << "skater", JStr("x") >> >>)}

InitJamEvent ==
  /\ \/ /\ pc = "serialize"
        /\ \E i \in DOMAIN JamEvent : value \in VariantSamples(JamEvent[i], 0)
        /\ json = Idle
     \/ /\ pc = "deserialize"
        /\ value = Idle
        /\ json \in RawEventDocs
  /\ decoded = Idle
  /\ reader = Idle
  /\ obj = Idle
  /\ result = Idle

SerializeJamEvent ==
  /\ pc = "serialize"
  /\ json' = Serialize(TJamEvent, value)
  /\ pc' = "deserialize"
  /\ UNCHANGED <<reader, obj, result, value, decoded>>

DeserializeJamEvent ==
  /\ pc = "deserialize"
  /\ decoded' = Deserialize(TJamEvent, json)
  /\ pc' = "done"
  /\ UNCHANGED <<reader, obj, result, value, json>>

NextJamEvent ==
  \/ SerializeJamEvent
  \/ DeserializeJamEvent

SpecJamEvent == InitJamEvent /\ [][NextJamEvent]_vars

(***************************************************************************)
(* ClockEvent: serialise a value, deserialise the text.                    *)
(***************************************************************************)
\* Timeline entries: every combination of the fields that tell the three
\* shapes apart, each absent or present.
EntryDocs ==
  {JObj(nt \o nu \o ev \o ns \o tm \o du) :
     nt \in {Absent, Present("note", JStr("n1"))},
     nu \in {Absent, Present("number", JInt(1))},
     ev \in {Absent, Present("events", JArr(<< >>)),
             Present("events", JArr(<< MinimalEventDoc(IndexOfRust(JamEvent, "Lead"), TRUE, FALSE) >>))},
     ns \in {Absent, Present("notes", JArr(<< >>)),
             Present("notes", JArr(<< JObj(<< << "note", JStr("n2") >> >>) >>))},
     tm \in {Absent, Present("timeout", JStr("Home"))},
     du \in {Absent, Present("duration", JInt(60))}}

InitClockEvent ==
  /\ \/ /\ pc = "serialize"
        /\ \E i \in DOMAIN ClockEvent :
             value \in {[variant |-> ClockEvent[i].rust, v |-> x] : x \in Samples(ClockEvent[i].ty, 1)}
        /\ json = Idle
     \/ /\ pc = "deserialize"
        /\ value = Idle
        /\ json \in EntryDocs
  /\ decoded = Idle
  /\ reader = Idle
  /\ obj = Idle
  /\ result = Idle

SerializeClockEvent ==
  /\ pc = "serialize"
  /\ json' = Serialize(TClockEvent, value)
  /\ pc' = "deserialize"
  /\ UNCHANGED <<reader, obj, result, value, decoded>>

DeserializeClockEvent ==
  /\ pc = "deserialize"
  /\ decoded' = Deserialize(TClockEvent, json)
  /\ pc' = "done"
  /\ UNCHANGED <<reader, obj, result, value, json>>

NextClockEvent ==
  \/ SerializeClockEvent
  \/ DeserializeClockEvent

SpecClockEvent == InitClockEvent /\ [][NextClockEvent]_vars

(***************************************************************************)
(* What the input of a run says, read off the text itself.                 *)
(***************************************************************************)
IsDoc == reader # Idle /\ reader.text = "json"
\* The value under the last entry named `key`.
LastValueOf(j, key) ==
  j.o[CHOOSE i \in DOMAIN j.o : j.o[i][1] = key /\ \A h \in (i + 1)..Len(j.o) : j.o[h][1] # key][2]
InputHas(key) == HasKey(reader.doc, key)
InputIs(key, v) == InputHas(key) /\ ValueOf(reader.doc, key) = v
\* The document decodes under the Rosters schema.
DecodesAsRosters == IsDoc /\ from_reader(reader).ok
\* The state of the loader: Decoding until it returns, then by what it returned.
LoaderState ==
  IF pc # "done" THEN "Decoding" ELSE IF result.ok THEN "Validated" ELSE "Rejected"

(***************************************************************************)
(* C1: a document that decodes under the Rosters schema, has type          *)
(* "rosters" and has no version or version "0.2" is returned as Ok; the    *)
(* returned teams map has exactly the team names of the input as its keys  *)
(* (one entry per distinct name), each team has as many persons as the     *)
(* input gives it (the last entry under that name), and version is None    *)
(* when the input has no version field.                                    *)
(***************************************************************************)
C1_LoadRosterOk ==
  (pc = "done" /\ DecodesAsRosters /\ InputIs("type", JStr("rosters"))
     /\ (~InputHas("version") \/ InputIs("version", JStr("0.2"))))
  => /\ result.ok
     /\ LET teams == ValueOf(reader.doc, "teams")
        IN /\ DOMAIN result.v.teams = Keys(teams)
           /\ Cardinality(DOMAIN result.v.teams) = Cardinality(Keys(teams))
           /\ \A name \in Keys(teams) :
                Len(result.v.teams[name].persons)
                  = Len(ValueOf(LastValueOf(teams, name), "persons").a)
     /\ (~InputHas("version") => result.v.version = None)

\* Two teams, one of them with a person, and no version given.
C1_Witness ==
  /\ pc = "done" /\ IsDoc /\ result.ok
  /\ ~InputHas("version")
  /\ Cardinality(DOMAIN result.v.teams) = 2
  /\ \E name \in DOMAIN result.v.teams : Len(result.v.teams[name].persons) = 1

\* The Debug name of the kind a type string stands for.
KindOf(t) ==
  CASE t = "game" -> "Game" [] t = "stats" -> "Stats" [] t = "league" -> "League"

(***************************************************************************)
(* C2: a document that decodes under the Rosters schema and whose type is  *)
(* game, stats or league is rejected with UnexpectedType carrying the      *)
(* document's kind, whatever its version field; it is never returned as Ok *)
(* and never rejected with UnexpectedVersion.                              *)
(***************************************************************************)
C2_UnexpectedType ==
  \A t \in {"game", "stats", "league"} :
    (pc = "done" /\ DecodesAsRosters /\ InputIs("type", JStr(t)))
    => /\ ~result.ok
       /\ result.err.variant # "UnexpectedVersion"
       /\ result.err = ErrorUnexpectedType(KindOf(t))

C2_Witness ==
  /\ pc = "done" /\ IsDoc
  /\ InputIs("type", JStr("stats")) /\ InputIs("version", JStr("9.9"))
  /\ result = Failed(ErrorUnexpectedType("Stats"))

(***************************************************************************)
(* C3: for a document of type "rosters" that decodes under the Rosters     *)
(* schema, a version string other than "0.2" is rejected with              *)
(* UnexpectedVersion carrying that very string; with no version or with    *)
(* version "0.2" the document is not rejected.                             *)
(***************************************************************************)
C3_UnexpectedVersion ==
  (pc = "done" /\ DecodesAsRosters /\ InputIs("type", JStr("rosters")))
  => /\ \A s \in {"9.9", "0.1", "0.2"} :
          InputIs("version", JStr(s)) =>
            IF s = "0.2" THEN result.ok
            ELSE result = Failed(ErrorUnexpectedVersion(s))
     /\ ~InputHas("version") => result.ok

C3_Witness ==
  /\ pc = "done" /\ IsDoc
  /\ InputIs("type", JStr("rosters"))
  /\ result = Failed(ErrorUnexpectedVersion("9.9"))

\* The declared field set of Rosters, and a reader whose document lacks `key`.
DeclaredNames == {"version", "metadata", "type", "teams", "uuid", "notes", "leagues"}
WithoutDoc(r, key) == [r EXCEPT !.doc = JObj(WithoutKey(r.doc.o, key))]

(***************************************************************************)
(* C4: a document that load_roster accepts, with one more top-level field  *)
(* whose name is outside {version, metadata, type, teams, uuid, notes,     *)
(* leagues}, is rejected with the decoder's unknown-field error naming     *)
(* that field (the error kind UnexpectedField; the code carries it as      *)
(* Error::Serde); without that field the document is accepted.             *)
(***************************************************************************)
C4_ClosedSchema ==
  (pc = "done" /\ IsDoc) =>
    \A key \in Keys(reader.doc) \ DeclaredNames :
      (Keys(reader.doc) \ DeclaredNames = {key} /\ load_roster(WithoutDoc(reader, key)).ok)
      => result = Failed(ErrorSerde(SerdeError("unknown field", key)))

\* The extra field comes last, after every declared field was read.
C4_Witness ==
  /\ pc = "done" /\ IsDoc
  /\ Keys(reader.doc) \ DeclaredNames = {"Type"}
  /\ InputHas("teams") /\ InputHas("uuid")
  /\ load_roster(WithoutDoc(reader, "Type")).ok
  /\ result = Failed(ErrorSerde(SerdeError("unknown field", "Type")))

\* The fields of Rosters that carry #[serde(default)].
DefaultedNames == {"uuid", "notes", "leagues"}
\* The document with every omitted defaulted field supplied as [].
RECURSIVE Supplied(_, _)
Supplied(pairs, names) ==
  IF names = {} THEN pairs
  ELSE LET f == CHOOSE f \in names : TRUE
       IN Supplied(IF \E i \in DOMAIN pairs : pairs[i][1] = f THEN pairs
                   ELSE pairs \o Present(f, JArr(<< >>)),
                   names \ {f})
OtherwiseValid ==
  IsDoc /\ from_reader([reader EXCEPT !.doc = JObj(Supplied(reader.doc.o, DefaultedNames))]).ok

(***************************************************************************)
(* C6: a Rosters document that omits any of uuid, notes, leagues and is    *)
(* otherwise valid decodes, each omitted field is the empty sequence, and  *)
(* each supplied field holds what was supplied.                            *)
(***************************************************************************)
C6_DefaultPopulation ==
  (pc # "decode" /\ OtherwiseValid)
  => /\ pc = "done" => (result.ok \/ result.err.variant # "Serde")
     /\ obj # Idle
     /\ \A f \in DefaultedNames : ~InputHas(f) => obj[f] = << >>
     /\ InputHas("uuid") =>
          LET a == ValueOf(reader.doc, "uuid").a
          IN obj.uuid = [i \in DOMAIN a |-> a[i].s]
     /\ InputHas("notes") =>
          LET a == ValueOf(reader.doc, "notes").a
          IN /\ Len(obj.notes) = Len(a)
             /\ \A i \in DOMAIN a : obj.notes[i].note = ValueOf(a[i], "note").s
     /\ InputHas("leagues") =>
          LET a == ValueOf(reader.doc, "leagues").a
          IN /\ Len(obj.leagues) = Len(a)
             /\ \A i \in DOMAIN a : obj.leagues[i].name = ValueOf(a[i], "name").s

\* uuid and notes omitted, leagues supplied.
C6_Witness ==
  /\ pc = "done" /\ IsDoc /\ result.ok
  /\ ~InputHas("uuid") /\ ~InputHas("notes") /\ InputHas("leagues")
  /\ result.v.uuid = << >> /\ result.v.notes = << >>
  /\ Len(result.v.leagues) = 1

\* The shapes of a timeline entry, each taken alone.
JamShaped(j) == j.t = "obj" /\ Deserialize(TStruct("Jam"), j).ok
NoteShaped(j) == j.t = "obj" /\ HasKey(j, "note") /\ ValueOf(j, "note").t = "str"

(***************************************************************************)
(* C5: a timeline entry that has the shape of a Jam (number, events and    *)
(* notes) and also carries a `note` string deserialises as the Jam         *)
(* variant of ClockEvent, not as the Note variant.                         *)
(***************************************************************************)
C5_JamBeforeNote ==
  (pc = "done" /\ value = Idle /\ HasKey(json, "number") /\ HasKey(json, "note")
     /\ JamShaped(json) /\ NoteShaped(json))
  => (decoded.ok /\ decoded.v.variant = "Jam")

\* The 15 documented tag strings and the variant each one names.
VariantOfTag(tag) ==
  CASE tag = "line up" -> "Lineup"
    [] tag = "pack lap" -> "PackLap"
    [] tag = "penalty" -> "Penalty"
    [] tag = "pass" -> "Pass"
    [] tag = "star pass" -> "StarPass"
    [] tag = "lead" -> "Lead"
    [] tag = "lost lead" -> "LostLead"
    [] tag = "call" -> "Call"
    [] tag = "enter box" -> "EnterBox"
    [] tag = "exit box" -> "ExitBox"
    [] tag = "box time" -> "BoxTime"
    [] tag = "injury" -> "Injury"
    [] tag = "note" -> "Note"
    [] tag = "leave track" -> "LeaveTrack"
    [] tag = "return track" -> "ReturnTrack"
    [] OTHER -> "none"
\* An event object with exactly one `event` entry, a string.
TagCount(j) == Cardinality({i \in DOMAIN j.o : j.o[i][1] = "event"})
Tagged(j) == j.t = "obj" /\ TagCount(j) = 1 /\ ValueOf(j, "event").t = "str"

(***************************************************************************)
(* C7: an event object whose `event` is one of the 15 tag strings, with    *)
(* the required fields of that variant, deserialises as the variant of     *)
(* that tag; any other `event` string fails with the decoder's             *)
(* unknown-variant error (the kind UnrecognizedEventKind) and gives no     *)
(* JamEvent.                                                               *)
(***************************************************************************)
C7_TagExhaustive ==
  (pc = "done" /\ Tagged(json))
  => LET tag == ValueOf(json, "event").s
     IN IF VariantOfTag(tag) # "none"
        THEN decoded.ok /\ decoded.v.variant = VariantOfTag(tag)
        ELSE decoded = Err("unknown variant", tag)

\* The required fields only, the tag met last.
C7_Witness ==
  /\ pc = "done" /\ value = Idle /\ Tagged(json)
  /\ json.o[Len(json.o)] = << "event", JStr("return track") >>
  /\ Keys(json) = {"event", "skater", "opposing-pass"}
  /\ decoded.ok /\ decoded.v.variant = "ReturnTrack"

(***************************************************************************)
(* C8: serialising a JamEvent and deserialising the text gives the value   *)
(* back, whether its optional fields are set or absent; the text carries   *)
(* the `event` tag of the value's variant; the fields no_skater and        *)
(* opposing_pass are written no-skater and opposing-pass (exit box, leave  *)
(* track, return track), and the multi-word fields of the other variants   *)
(* keep their names.                                                       *)
(***************************************************************************)
C8_JamEventRoundTrip ==
  (pc = "done" /\ value # Idle)
  => /\ decoded = Ok(value)
     /\ Tagged(json) /\ VariantOfTag(ValueOf(json, "event").s) = value.variant
     /\ value.variant = "ExitBox" => ("no-skater" \in Keys(json) /\ "no_skater" \notin Keys(json))
     /\ value.variant \in {"LeaveTrack", "ReturnTrack"}
          => ("opposing-pass" \in Keys(json) /\ "opposing_pass" \notin Keys(json))
     /\ value.variant = "Lineup" => ("start_in_box" \in Keys(json) /\ "start-in-box" \notin Keys(json))
     /\ value.variant = "Pass" => ("ghost_points" \in Keys(json) /\ "ghost-points" \notin Keys(json))

\* An exit box event with every optional field set.
C8_Witness ==
  /\ pc = "done" /\ value # Idle /\ value.variant = "ExitBox"
  /\ \A f \in {"timestamp", "duration", "premature", "no_skater"} : value.fields[f].some
  /\ decoded.ok /\ decoded.v = value

(***************************************************************************)
(* C9: serialising a Timestamp and deserialising the text gives the same   *)
(* variant with the same payload, for each of the five variants; a value   *)
(* of one variant never comes back as another.                             *)
(***************************************************************************)
C9_TimestampPreserved ==
  (pc = "done" /\ value # Idle)
  => /\ decoded.ok
     /\ decoded.v.variant = value.variant
     /\ decoded.v.v = value.v
     /\ value.variant \in {"Wall", "Epoch", "Period", "Seconds", "Jam"}

\* A number-valued variant other than the first one declared.
C9_Witness ==
  /\ pc = "done" /\ value # Idle
  /\ value.variant = "Seconds" /\ value.v.num.N = "Float"
  /\ decoded.ok /\ decoded.v = value

\* What each loader state holds, and the steps between the states.
C10_Outcome ==
  /\ LoaderState \in {"Decoding", "Validated", "Rejected"}
  /\ LoaderState = "Decoding" => result = Idle
  /\ LoaderState = "Rejected"
       => /\ DOMAIN result = {"ok", "err"}
          /\ result.err.variant \in {"Serde", "UnexpectedType", "UnexpectedVersion"}
  /\ LoaderState = "Validated"
       => /\ result.v.objecttype = 1
          /\ DebugFmt("ObjectType", result.v.objecttype) = "Rosters"
          /\ result.v.version \in {None, Some("0.2")}
          /\ result.v = obj

C10_Step ==
  /\ pc \in {"decode", "check_type", "check_version"}
  /\ pc = "decode" =>
       \/ pc' = "check_type" /\ result' = Idle
       \/ pc' = "done" /\ ~result'.ok /\ result'.err.variant = "Serde"
  /\ pc = "check_type" =>
       \/ pc' = "check_version" /\ result' = Idle
       \/ pc' = "done" /\ ~result'.ok /\ result'.err.variant = "UnexpectedType"
  /\ pc = "check_version" =>
       /\ pc' = "done"
       /\ result'.ok \/ result'.err.variant = "UnexpectedVersion"

(***************************************************************************)
(* C10: a run of load_roster starts in Decoding and ends, once and for     *)
(* all, Validated (Ok with a Rosters value) or Rejected (an Error: a       *)
(* decode failure, UnexpectedType or UnexpectedVersion).  The steps are    *)
(* decode, then the type check, then the version check, never backwards.   *)
(* A Rejected run returns no Rosters value; a Validated value has          *)
(* objecttype Rosters and no version or version "0.2".                     *)
(***************************************************************************)
C10_LoaderStateMachine ==
  /\ LoaderState = "Decoding"
  /\ []C10_Outcome
  /\ [][C10_Step]_vars
  /\ <>(LoaderState \in {"Validated", "Rejected"})

C10_Witness ==
  /\ LoaderState = "Validated"
  /\ IsDoc /\ InputIs("version", JStr("0.2"))
  /\ result.v.version = Some("0.2")

====
